---- MODULE Spec2Model ----
(***************************************************************************)
(* Model of the reelzila-admin console: the bulk transaction import of     *)
(* src/src/components/admin/CsvUpload.tsx (validateRow, handleFileUpload)  *)
(* and the session gate of src/src/components/AdminAuthWrapper.tsx.        *)
(*                                                                         *)
(* Strings are sequences of one-character strings, so that trim,           *)
(* toLowerCase, the regular expressions and the date arithmetic are        *)
(* computed and not assumed.  A message built from a template literal is   *)
(* a record [kind, row, arg]: the template, the row number and the         *)
(* interpolated text.                                                      *)
(***************************************************************************)
EXTENDS Integers, Sequences, FiniteSets, TLC

VARIABLES
    \* ---- CsvUpload component (CsvUpload.tsx:153-255)
    isProcessing,   \* useState(false)
    progress,       \* useState('')
    results,        \* useState<BulkResult | null>(null)
    pc,             \* where the running handleFileUpload is suspended
    \* the locals of the latest invocation of handleFileUpload
    file,           \* `file`
    rows,           \* `rows` (after parsing)
    examined,       \* number of rows the validation loop applied validateRow to
    clientErrors,   \* `clientErrors`
    validRows,      \* `validRows`
    requests,       \* bodies it has POSTed to /admin/transactions/bulk
    response,       \* what its makeRequest call settled with
    trail,          \* history: the phases the latest run has entered, in order
    \* ---- validateRow applied to one row
    vRow,           \* the row under validation
    vNum,           \* its row number
    vOut,           \* validateRow's return value for it, or Pending
    vRaw,           \* the raw record the row was normalized from, or NoRaw
    \* ---- session gate (AdminAuthWrapper.tsx:61-149) and its environment
    user,           \* useAuth().user: NoUser or a uid
    authLoading,    \* useAuth().loading
    now,            \* Date.now(), in ms
    adminCache,     \* the module-level Map: uid -> entry or NoEntry
    mounted,        \* a gate instance is mounted
    inst,           \* number of gate instances mounted so far (the current one)
    isAdmin,        \* useState of the current instance
    isVerifying,    \* useState of the current instance
    verifiedRef,    \* useRef of the current instance
    rendered,       \* what the current instance returned from its last render
    lookups,        \* getDoc reads in flight: [id, inst, uid]
    issued,         \* number of getDoc reads started so far
    alerts,         \* number of "Access Denied" alerts raised so far
    redirect,       \* router.push("/login") has been called
    loggingOut,     \* handleLogout is suspended at `await logout()`
    positive,       \* history: uids for which a read returned isAdmin === true
    denied,         \* history: [inst, uid] denied since the last identity change
    \* ---- identity resolver of one import run (spec section 4.3)
    idRows,         \* the emails of the run's valid rows, in row order
    idNext,         \* index of the next row to resolve
    identityCache,  \* IdentityCache: normalized email -> outcome or Unresolved
    idPending,      \* the normalized email whose lookup is in flight, or <<>>
    idLookups,      \* history: external lookups issued in this run, per email
    \* ---- payouts screen (unnamed/part_005:46-148)
    pMounted,       \* PayoutsContent is mounted
    pInst,          \* number of PayoutsContent instances mounted so far
    autoRefresh,    \* useState autoRefresh
    approvingId,    \* useState approvingId: a payout id or NoId
    rejectingId,    \* useState rejectingId
    completingId,   \* useState completingId
    timer,          \* the interval of line 89 is set and not cleared
    pActions,       \* approve/reject/complete handlers in flight: [kind, id, inst]
    serverVer,      \* number of actions the backend has applied to the payouts
    pFetches,       \* fetchPayouts calls in flight: [inst, data, src, act]
    shown,          \* version of the lists in pendingPayouts/historyPayouts
    shownSrc,       \* history: what started the fetch whose lists are shown
    settledVer,     \* history: newest version shown by a completed action
    \* ---- dashboard data cache (app/page.tsx:29-139)
    dataCache,      \* the module-level object: [stats, users, timestamp]
    dNow,           \* Date.now() on the dashboard, in ms
    dMounted,       \* DashboardContent is mounted
    dFetches,       \* ids of the fetchData calls suspended at Promise.allSettled
    dIssued,        \* number of fetchData calls that reached the requests
    \* ---- user detail screen (app/users/[userId]/page.tsx:96-213)
    transactions,   \* useState transactions: the ids of the list, kept in order
    txPage,         \* useState txPage
    serverTx,       \* the user's transactions in the backend
    txDeletes,      \* handleDeleteTransaction calls in flight: [id, page, applied]
    txFetches,      \* fetchData calls in flight: [id, data]
    txIssued        \* number of requests (deletes and fetches) started so far

importVars == <<isProcessing, progress, results, pc, file, rows, examined,
                clientErrors, validRows, requests, response, trail>>
validateVars == <<vRow, vNum, vOut, vRaw>>
gateVars == <<user, authLoading, now, adminCache, mounted, inst, isAdmin,
              isVerifying, verifiedRef, rendered, lookups, issued, alerts,
              redirect, loggingOut, positive, denied>>
resolverVars == <<idRows, idNext, identityCache, idPending, idLookups>>
payoutVars == <<pMounted, pInst, autoRefresh, approvingId, rejectingId,
                completingId, timer, pActions, serverVer, pFetches, shown,
                shownSrc, settledVer>>
dashVars == <<dataCache, dNow, dMounted, dFetches, dIssued>>
detailVars == <<transactions, txPage, serverTx, txDeletes, txFetches, txIssued>>
vars == <<importVars, validateVars, gateVars, resolverVars, payoutVars, dashVars,
         detailVars>>

\* what the steps of one part of the program leave alone: the other parts
besidesImport == <<validateVars, gateVars, resolverVars, payoutVars, dashVars,
    detailVars>>
besidesValidate == <<importVars, gateVars, resolverVars, payoutVars, dashVars,
    detailVars>>
besidesGate == <<importVars, validateVars, resolverVars, payoutVars, dashVars,
    detailVars>>
besidesResolver == <<importVars, validateVars, gateVars, payoutVars, dashVars,
    detailVars>>
besidesPayouts == <<importVars, validateVars, gateVars, resolverVars, dashVars,
    detailVars>>
besidesDashboard == <<importVars, validateVars, gateVars, resolverVars, payoutVars,
    detailVars>>
besidesDetail == <<importVars, validateVars, gateVars, resolverVars, payoutVars,
    dashVars>>

(***************************************************************************)
(* Characters and strings                                                  *)
(***************************************************************************)
UpperChars == <<"A","B","C","D","E","F","G","H","I","J","K","L","M",
                "N","O","P","Q","R","S","T","U","V","W","X","Y","Z">>
LowerChars == <<"a","b","c","d","e","f","g","h","i","j","k","l","m",
                "n","o","p","q","r","s","t","u","v","w","x","y","z">>
DigitChars == <<"0","1","2","3","4","5","6","7","8","9">>
WhiteSpace == {" ", "\t", "\n"}

Range(s) == {s[i] : i \in 1..Len(s)}
UpperSet == Range(UpperChars)
DigitSet == Range(DigitChars)
LowerOf == [c \in UpperSet |-> LowerChars[CHOOSE i \in 1..26 : UpperChars[i] = c]]
DigitOf == [c \in DigitSet |-> (CHOOSE i \in 1..10 : DigitChars[i] = c) - 1]
SetMin(S) == CHOOSE x \in S : \A y \in S : x <= y
SetMax(S) == CHOOSE x \in S : \A y \in S : x >= y

IsDigit(c) == c \in DigitSet
DigitVal(c) == DigitOf[c]

LowerChar(c) == IF c \in UpperSet THEN LowerOf[c] ELSE c

\* String.prototype.toLowerCase
toLowerCase(s) == [i \in 1..Len(s) |-> LowerChar(s[i])]

\* String.prototype.trim
trim(s) ==
    LET keep == {i \in 1..Len(s) : s[i] \notin WhiteSpace}
    IN  IF keep = {} THEN <<>> ELSE SubSeq(s, SetMin(keep), SetMax(keep))

\* Number -> its decimal text, as a template literal prints it
RECURSIVE ToStr(_)
ToStr(n) ==
    IF n < 0 THEN <<"-">> \o ToStr(-n)
    ELSE IF n < 10 THEN <<DigitChars[n + 1]>>
    ELSE ToStr(n \div 10) \o <<DigitChars[(n % 10) + 1]>>

\* Number("dd") for a string of decimal digits
RECURSIVE ToNum(_)
ToNum(s) ==
    IF s = <<>> THEN 0
    ELSE 10 * ToNum(SubSeq(s, 1, Len(s) - 1)) + DigitVal(s[Len(s)])

(***************************************************************************)
(* Messages and numbers                                                    *)
(***************************************************************************)
Msg(kind, row, arg) == [kind |-> kind, row |-> row, arg |-> arg]
Null == Msg("null", 0, <<>>)
Pending == Msg("pending", 0, <<>>)

\* a JavaScript number: NaN or an integer (parseInt yields nothing else here)
Num(v) == [nan |-> FALSE, v |-> v]
NaN == [nan |-> TRUE, v |-> 0]
isNaN(a) == a.nan

(***************************************************************************)
(* validateRow (CsvUpload.tsx:24-55)                                       *)
(***************************************************************************)
VALID_STATUSES == { <<"p","a","i","d">>,
                    <<"p","e","n","d","i","n","g">>,
                    <<"f","a","i","l","e","d">> }
MAX_ROWS == 1000

\* /^[^\s@]+@[^\s@]+\.[^\s@]+$/.test(s)
EmailRegexTest(s) ==
    /\ \A i \in 1..Len(s) : s[i] \notin WhiteSpace
    /\ Cardinality({i \in 1..Len(s) : s[i] = "@"}) = 1
    /\ LET at == CHOOSE i \in 1..Len(s) : s[i] = "@"
       IN  /\ at > 1
           /\ \E j \in (at + 2)..(Len(s) - 1) : s[j] = "."

\* DATE_REGEX = /^\d{2}\/\d{2}\/\d{4}$/
DateRegexTest(s) ==
    /\ Len(s) = 10
    /\ \A i \in {1, 2, 4, 5, 7, 8, 9, 10} : IsDigit(s[i])
    /\ s[3] = "/"
    /\ s[6] = "/"

\* row.date.split('/').map(Number), for a string DATE_REGEX accepts
DateParts(s) ==
    [dd |-> ToNum(SubSeq(s, 1, 2)),
     mm |-> ToNum(SubSeq(s, 4, 5)),
     yyyy |-> ToNum(SubSeq(s, 7, 10))]

\* ECMAScript DayFromYear, DaysInYear
DayFromYear(y) ==
    365 * (y - 1970) + ((y - 1969) \div 4) - ((y - 1901) \div 100)
        + ((y - 1601) \div 400)
IsLeap(y) == (y % 4 = 0) /\ ((y % 100 # 0) \/ (y % 400 = 0))
\* days before month index m (0-based) in year y
DaysBeforeMonth(y, m) ==
    LET base == <<0, 31, 59, 90, 120, 151, 181, 212, 243, 273, 304, 334, 365>>
    IN  base[m + 1] + (IF m >= 2 /\ IsLeap(y) THEN 1 ELSE 0)

\* new Date(year, monthIndex, day): the local calendar date it denotes, as
\* [date |-> getDate(), month |-> getMonth(), year |-> getFullYear()].
\* A year in 0..99 means 1900 + year; month and day overflow into the
\* neighbouring months and years.
NewDate(year, monthIndex, day) ==
    LET yr  == IF year >= 0 /\ year <= 99 THEN 1900 + year ELSE year
        ym  == yr + (monthIndex \div 12)
        mn  == monthIndex % 12
        t   == DayFromYear(ym) + DaysBeforeMonth(ym, mn) + day - 1
        fy  == CHOOSE y \in (ym - 1)..(ym + 1) :
                   DayFromYear(y) <= t /\ t < DayFromYear(y + 1)
        diy == t - DayFromYear(fy)
        fm  == CHOOSE m \in 0..11 :
                   DaysBeforeMonth(fy, m) <= diy /\ diy < DaysBeforeMonth(fy, m + 1)
    IN  [date |-> diy - DaysBeforeMonth(fy, fm) + 1, month |-> fm, year |-> fy]

\* variant: only getDate() is compared
CalendarMismatch_DayOnly(row) ==
    LET p == DateParts(row.date)
        dateObj == NewDate(p.yyyy, p.mm - 1, p.dd)
    IN  dateObj.date # p.dd

CalendarMismatch(row) ==
    LET p == DateParts(row.date)
        dateObj == NewDate(p.yyyy, p.mm - 1, p.dd)
    IN  dateObj.date # p.dd \/ dateObj.month # p.mm - 1 \/ dateObj.year # p.yyyy

\* variant: the upper bound of the amount excluded
validateRow_AmountExclusive(row, rowNum) ==
    IF row.email = <<>> \/ ~EmailRegexTest(row.email)
        THEN Msg("email", rowNum, row.email)
    ELSE IF row.date = <<>> \/ ~DateRegexTest(row.date)
        THEN Msg("date_format", rowNum, row.date)
    ELSE IF CalendarMismatch(row)
        THEN Msg("calendar", rowNum, row.date)
    ELSE IF LET yyyy == DateParts(row.date).yyyy IN yyyy < 2000 \/ yyyy > 2100
        THEN Msg("year", rowNum, ToStr(DateParts(row.date).yyyy))
    ELSE IF isNaN(row.amount) \/ row.amount.v < 0 \/ row.amount.v >= 100000
        THEN Msg("amount", rowNum, <<>>)
    ELSE IF row.type = <<>> \/ Len(trim(row.type)) = 0 \/ Len(trim(row.type)) > 50
        THEN Msg("type", rowNum, <<>>)
    ELSE IF trim(toLowerCase(row.status)) \notin VALID_STATUSES
        THEN Msg("status", rowNum, <<>>)
    ELSE Null

validateRow(row, rowNum) ==
    IF row.email = <<>> \/ ~EmailRegexTest(row.email)
        THEN Msg("email", rowNum, row.email)
    ELSE IF row.date = <<>> \/ ~DateRegexTest(row.date)
        THEN Msg("date_format", rowNum, row.date)
    ELSE IF CalendarMismatch(row)
        THEN Msg("calendar", rowNum, row.date)
    ELSE IF LET yyyy == DateParts(row.date).yyyy IN yyyy < 2000 \/ yyyy > 2100
        THEN Msg("year", rowNum, ToStr(DateParts(row.date).yyyy))
    ELSE IF isNaN(row.amount) \/ row.amount.v < 0 \/ row.amount.v > 100000
        THEN Msg("amount", rowNum, <<>>)
    ELSE IF row.type = <<>> \/ Len(trim(row.type)) = 0 \/ Len(trim(row.type)) > 50
        THEN Msg("type", rowNum, <<>>)
    ELSE IF trim(toLowerCase(row.status)) \notin VALID_STATUSES
        THEN Msg("status", rowNum, <<>>)
    ELSE Null

(***************************************************************************)
(* Input domain of the import: rows, files, server replies                 *)
(***************************************************************************)
MaxSegs == 2

Row(email, date, amount, type, status) ==
    [email |-> email, date |-> date, amount |-> amount, type |-> type,
     status |-> status]

JohnMixed == <<"J","o","h","n","@","E","x","a","m","p","l","e",".","c","o","m">>
JaneLower == <<"j","a","n","e","@","e","x","a","m","p","l","e",".","c","o","m">>
CreditPurchase == <<"c","r","e","d","i","t","_","p","u","r","c","h","a","s","e">>
Date15Jan2025 == <<"1","5","/","0","1","/","2","0","2","5">>
Date20Jan2025 == <<"2","0","/","0","1","/","2","0","2","5">>
Date31Feb2025 == <<"3","1","/","0","2","/","2","0","2","5">>

\* a passing row that is not yet in normal form
MixedRow == Row(JohnMixed, Date15Jan2025, Num(50),
                <<" ">> \o CreditPurchase \o <<" ">>, <<"P","a","i","d"," ">>)
\* a passing row already in normal form
PlainRow == Row(JaneLower, Date20Jan2025, Num(100), CreditPurchase,
                <<"p","e","n","d","i","n","g">>)
\* a row failing every rule
BadRow == Row(<<"b","a","d">>, Date31Feb2025, Num(-5), <<>>,
              <<"u","n","k","n","o","w","n">>)

RowMenu == {MixedRow, BadRow}

\* the rows validateRow is checked on by itself
Repeat(c, n) == [i \in 1..n |-> c]
DateOf(dd, mm, yyyy) == dd \o <<"/">> \o mm \o <<"/">> \o yyyy
ValEmails == { <<>>, <<"b","a","d">>, <<"a","@","b">>, JohnMixed,
               <<"a"," ","b","@","c",".","d","e">> }
ValDates ==
    { <<>>, <<"1","/","1","/","2","0","2","5">>, Date15Jan2025, Date31Feb2025,
      DateOf(<<"2","9">>, <<"0","2">>, <<"2","0","2","4">>),
      DateOf(<<"2","9">>, <<"0","2">>, <<"2","0","2","3">>),
      DateOf(<<"2","9">>, <<"0","2">>, <<"2","1","0","0">>),
      DateOf(<<"0","0">>, <<"0","1">>, <<"2","0","2","5">>),
      DateOf(<<"1","5">>, <<"1","3">>, <<"2","0","2","5">>),
      DateOf(<<"1","5">>, <<"0","0">>, <<"2","0","2","5">>),
      DateOf(<<"3","1">>, <<"1","2">>, <<"1","9","9","9">>),
      DateOf(<<"0","1">>, <<"0","1">>, <<"2","0","0","0">>),
      DateOf(<<"3","1">>, <<"1","2">>, <<"2","1","0","0">>),
      DateOf(<<"0","1">>, <<"0","1">>, <<"2","1","0","1">>),
      DateOf(<<"1","5">>, <<"0","1">>, <<"0","0","5","0">>) }
ValAmounts == { NaN, Num(-1), Num(0), Num(50), Num(100000), Num(100001) }
ValTypes == { <<>>, <<" "," ">>, CreditPurchase, Repeat("a", 50),
              <<" ">> \o Repeat("a", 50) \o <<" ">>, Repeat("a", 51) }
ValStatuses == { <<>>, <<"p","a","i","d">>, <<" ","P","E","N","D","I","N","G">>,
                 <<"F","a","i","l","e","d"," ">>, <<"u","n","k","n","o","w","n">> }
ValRows == [email : ValEmails, date : ValDates, amount : ValAmounts,
            type : ValTypes, status : ValStatuses]
SegCounts == {1, 100, 900}
Segments == [row : RowMenu, count : SegCounts]
SegSeqs == UNION {[1..k -> Segments] : k \in 0..MaxSegs}

\* the parsed rows a run-length description stands for
RECURSIVE Expand(_)
Expand(segs) ==
    IF segs = <<>> THEN <<>>
    ELSE [i \in 1..segs[1].count |-> segs[1].row] \o Expand(Tail(segs))

CsvName == <<"t",".","c","s","v">>
OtherNames == { <<"T",".","X","L","S","X">>, <<"o",".","x","l","s">>,
                <<"n",".","t","x","t">>, <<"c","s","v">> }
ParseFailures == { Msg("parse_error", 0, <<>>),
                   Msg("no_sheets", 0, <<>>),
                   Msg("read_failed", 0, <<>>) }
ParseOk(segs) == [ok |-> TRUE, segs |-> segs, err |-> Null]
ParseOutcomes ==
    {ParseOk(segs) : segs \in SegSeqs}
        \cup [ok : {FALSE}, segs : {<<>>}, err : ParseFailures]
\* every content under one name; the other names with a few contents
Files ==
    [name : {CsvName}, parse : ParseOutcomes]
        \cup [name : OtherNames,
              parse : {ParseOk(<<>>), ParseOk(<<[row |-> PlainRow, count |-> 1]>>)}
                        \cup [ok : {FALSE}, segs : {<<>>}, err : ParseFailures]]
NoFile == [name |-> <<>>, parse |-> [ok |-> FALSE, segs |-> <<>>, err |-> Null]]

ServerErr1 == Msg("server", 3, <<"u","s","e","r">>)
ServerErr2 == Msg("server", 2, <<"d","u","p">>)
ServerErrorLists == { <<>>, <<ServerErr1>>, <<ServerErr1, ServerErr2>> }

(***************************************************************************)
(* handleFileUpload (CsvUpload.tsx:167-255)                                *)
(***************************************************************************)
BulkResult(success, errors) == [success |-> success, errors |-> errors]
NoResult == [success |-> -1, errors |-> <<>>]      \* results === null
NoResponse == [hasSuccess |-> FALSE, success |-> 0, hasErrors |-> FALSE,
               errors |-> <<>>]
\* how makeRequest settled: "value", "undefined" (no JSON body) or "throw"
Settled(kind, body, message) == [kind |-> kind, body |-> body, message |-> message]

\* file.name.split('.').pop()?.toLowerCase()
FileExt(name) ==
    LET dots == {i \in 1..Len(name) : name[i] = "."}
    IN  toLowerCase(IF dots = {} THEN name
                    ELSE SubSeq(name, SetMax(dots) + 1, Len(name)))
SupportedExts == { <<"c","s","v">>, <<"x","l","s","x">>, <<"x","l","s">> }

MoreMarker == Msg("more", 0, <<>>)

\* the object pushed to validRows for a passing row (lines 220-226)
ValidRowOf(row) ==
    [email |-> trim(row.email), date |-> trim(row.date), amount |-> row.amount,
     type |-> trim(row.type), status |-> trim(toLowerCase(row.status))]

\* variant: the push onto validRows is outside the else branch
LoopBody_PushesAll(rs, i, st) ==
    IF st.broken THEN st
    ELSE LET error == validateRow(rs[i + 1], i + 2)
             valid1 == Append(st.valid, ValidRowOf(rs[i + 1]))
         IN  IF error # Null
             THEN LET errs1 == Append(st.errors, error)
                  IN  IF Len(errs1) >= 100
                      THEN [st EXCEPT !.i = i + 1,
                                      !.errors = Append(errs1, MoreMarker),
                                      !.broken = TRUE]
                      ELSE [st EXCEPT !.i = i + 1, !.errors = errs1,
                                      !.valid = valid1]
             ELSE [st EXCEPT !.i = i + 1, !.valid = valid1]

\* variant: the marker is pushed but the loop goes on (no break at line 217)
LoopBody_NoBreak(rs, i, st) ==
    LET error == validateRow(rs[i + 1], i + 2)
    IN  IF error # Null
        THEN LET errs1 == Append(st.errors, error)
             IN  IF Len(errs1) >= 100
                 THEN [st EXCEPT !.i = i + 1,
                                 !.errors = Append(errs1, MoreMarker)]
                 ELSE [st EXCEPT !.i = i + 1, !.errors = errs1]
        ELSE [st EXCEPT !.i = i + 1,
                        !.valid = Append(st.valid, ValidRowOf(rs[i + 1]))]

\* one iteration of the loop of lines 210-228 at index i (0-based); st holds
\* the lists so far, the number of rows validateRow was applied to, and
\* whether the break of line 217 has been taken
LoopBody(rs, i, st) ==
    IF st.broken THEN st
    ELSE LET error == validateRow(rs[i + 1], i + 2)
         IN  IF error # Null
             THEN LET errs1 == Append(st.errors, error)
                  IN  IF Len(errs1) >= 100
                      THEN [st EXCEPT !.i = i + 1,
                                      !.errors = Append(errs1, MoreMarker),
                                      !.broken = TRUE]
                      ELSE [st EXCEPT !.i = i + 1, !.errors = errs1]
             ELSE [st EXCEPT !.i = i + 1,
                             !.valid = Append(st.valid, ValidRowOf(rs[i + 1]))]

\* the iterations lo..hi-1 in order (split in halves to keep the evaluation
\* shallow; the order of the iterations is that of the for loop)
RECURSIVE LoopRange(_, _, _, _)
LoopRange(rs, lo, hi, st) ==
    IF lo >= hi THEN st
    ELSE IF hi = lo + 1 THEN LoopBody(rs, lo, st)
    ELSE LET mid == (lo + hi) \div 2
             left == LoopRange(rs, lo, mid, st)
         IN  IF left.broken THEN left ELSE LoopRange(rs, mid, hi, left)

\* for (let i = 0; i < rows.length; i++) { ... }  (lines 207-228)
ValidationLoop(rs) ==
    LoopRange(rs, 0, Len(rs),
              [i |-> 0, errors |-> <<>>, valid |-> <<>>, broken |-> FALSE])

\* variant: the ceiling test rejects a file of exactly MAX_ROWS rows
TooManyRows_AtCeiling(rs) == Len(rs) >= MAX_ROWS

\* the row-count ceiling of line 198
TooManyRows(rs) == Len(rs) > MAX_ROWS

\* variant: the processing flag is not cleared
Finish_LeavesProcessing(res) ==
    /\ results' = res
    /\ isProcessing' = isProcessing
    /\ progress' = ""
    /\ pc' = "idle"

\* the finally block (lines 250-254) after the result has been set
Finish(res) ==
    /\ results' = res
    /\ isProcessing' = FALSE
    /\ progress' = ""
    /\ pc' = "idle"

\* onChange with no file chosen (line 169)
UploadNoFile ==
    /\ ~isProcessing
    /\ UNCHANGED vars

\* variant: the `return` of line 175 is missing
UploadUnsupported_NoReturn ==
    /\ ~isProcessing
    /\ \E f \in Files :
        /\ FileExt(f.name) \notin SupportedExts
        /\ file' = f
    /\ isProcessing' = TRUE
    /\ results' = NoResult
    /\ progress' = "parsing"
    /\ pc' = "parsing"
    /\ rows' = <<>>
    /\ examined' = 0
    /\ clientErrors' = <<>>
    /\ validRows' = <<>>
    /\ requests' = <<>>
    /\ response' = Settled("none", NoResponse, Null)
    /\ trail' = <<"Parsing">>
    /\ UNCHANGED <<besidesImport>>

\* onChange with a file of an unsupported extension (lines 171-176)
UploadUnsupported ==
    /\ ~isProcessing
    /\ \E f \in Files :
        /\ FileExt(f.name) \notin SupportedExts
        /\ file' = f
        /\ results' = BulkResult(0, <<Msg("unsupported", 0, <<>>)>>)
    /\ rows' = <<>>
    /\ examined' = 0
    /\ clientErrors' = <<>>
    /\ validRows' = <<>>
    /\ requests' = <<>>
    /\ response' = Settled("none", NoResponse, Null)
    /\ trail' = <<"Parsing", "Done">>
    /\ UNCHANGED <<isProcessing, progress, pc, besidesImport>>

\* variant: setIsProcessing(true) of line 178 is missing
UploadStart_NoFlag ==
    /\ ~isProcessing
    /\ \E f \in Files :
        /\ FileExt(f.name) \in SupportedExts
        /\ file' = f
    /\ isProcessing' = isProcessing
    /\ results' = NoResult
    /\ progress' = "parsing"
    /\ pc' = "parsing"
    /\ rows' = <<>>
    /\ examined' = 0
    /\ clientErrors' = <<>>
    /\ validRows' = <<>>
    /\ requests' = <<>>
    /\ response' = Settled("none", NoResponse, Null)
    /\ trail' = <<"Parsing">>
    /\ UNCHANGED <<besidesImport>>

\* onChange with a supported file, up to the first await (lines 167-189)
UploadStart ==
    /\ ~isProcessing
    /\ \E f \in Files :
        /\ FileExt(f.name) \in SupportedExts
        /\ file' = f
    /\ isProcessing' = TRUE
    /\ results' = NoResult
    /\ progress' = "parsing"
    /\ pc' = "parsing"
    /\ rows' = <<>>
    /\ examined' = 0
    /\ clientErrors' = <<>>
    /\ validRows' = <<>>
    /\ requests' = <<>>
    /\ response' = Settled("none", NoResponse, Null)
    /\ trail' = <<"Parsing">>
    /\ UNCHANGED <<besidesImport>>

\* parseCsv / parseXlsx rejects: the catch and finally blocks (lines 247-254)
ParseRejected ==
    /\ pc = "parsing"
    /\ ~file.parse.ok
    /\ Finish(BulkResult(0, <<file.parse.err>>))
    /\ trail' = Append(trail, "Done")
    /\ UNCHANGED <<file, rows, examined, clientErrors, validRows, requests,
                   response, besidesImport>>

\* the parser resolves with no row (lines 191-196, then finally)
ParsedEmpty ==
    /\ pc = "parsing"
    /\ file.parse.ok
    /\ Expand(file.parse.segs) = <<>>
    /\ Finish(BulkResult(0, <<Msg("empty", 0, <<>>)>>))
    /\ trail' = Append(trail, "Done")
    /\ UNCHANGED <<file, rows, examined, clientErrors, validRows, requests,
                   response, besidesImport>>

\* the parser resolves with more than MAX_ROWS rows (lines 198-203, finally)
ParsedTooMany ==
    /\ pc = "parsing"
    /\ file.parse.ok
    /\ LET rs == Expand(file.parse.segs)
       IN  /\ TooManyRows(rs)
           /\ rows' = rs
           /\ Finish(BulkResult(0, <<Msg("too_many_rows", 0,
                        ToStr(Len(rs)) \o <<"/">> \o ToStr(MAX_ROWS))>>))
    /\ trail' = Append(trail, "Done")
    /\ UNCHANGED <<file, examined, clientErrors, validRows, requests,
                   response, besidesImport>>

\* variant: the early return of lines 230-235 is missing
ParsedValidate_NoEarlyReturn ==
    /\ pc = "parsing"
    /\ file.parse.ok
    /\ LET rs == Expand(file.parse.segs)
           out == ValidationLoop(rs)
       IN  /\ Len(rs) > 0
           /\ ~TooManyRows(rs)
           /\ rows' = rs
           /\ examined' = out.i
           /\ clientErrors' = out.errors
           /\ validRows' = out.valid
           /\ progress' = "uploading"
           /\ pc' = "token"
           /\ trail' = trail \o <<"Validating", "Submitting">>
           /\ UNCHANGED <<results, isProcessing>>
    /\ UNCHANGED <<file, requests, response, besidesImport>>

\* the parser resolves with 1..MAX_ROWS rows: validation (lines 205-228), then
\* either the early return of lines 230-235 or the call of makeRequest
ParsedValidate ==
    /\ pc = "parsing"
    /\ file.parse.ok
    /\ LET rs == Expand(file.parse.segs)
           out == ValidationLoop(rs)
       IN  /\ Len(rs) > 0
           /\ ~TooManyRows(rs)
           /\ rows' = rs
           /\ examined' = out.i
           /\ clientErrors' = out.errors
           /\ validRows' = out.valid
           /\ IF Len(out.valid) = 0
              THEN /\ Finish(BulkResult(0, out.errors))
                   /\ trail' = trail \o <<"Validating", "Done">>
              ELSE /\ progress' = "uploading"
                   /\ pc' = "token"
                   /\ trail' = trail \o <<"Validating", "Submitting">>
                   /\ UNCHANGED <<results, isProcessing>>
    /\ UNCHANGED <<file, requests, response, besidesImport>>

(***************************************************************************)
(* makeRequest (unnamed/part_003:14-65) as handleFileUpload uses it        *)
(***************************************************************************)
\* what fetch can settle with
JsonBodies(n) ==
    [hasSuccess : {TRUE}, success : {n}, hasErrors : {TRUE},
     errors : ServerErrorLists]
    \cup {[hasSuccess |-> FALSE, success |-> 0, hasErrors |-> TRUE,
           errors |-> <<ServerErr1>>],
          [hasSuccess |-> TRUE, success |-> 0, hasErrors |-> FALSE,
           errors |-> <<>>]}
HttpReplies(n) ==
    {[kind |-> "ok_json", status |-> 200, body |-> b] : b \in JsonBodies(n)}
    \cup {[kind |-> k, status |-> st, body |-> [hasSuccess |-> FALSE, success |-> 0,
                                   hasErrors |-> FALSE, errors |-> <<>>]] :
            k \in {"detail_string", "detail_array", "detail_absent", "not_json"},
            st \in {500}}
    \cup {[kind |-> k, status |-> 0, body |-> [hasSuccess |-> FALSE, success |-> 0,
                                   hasErrors |-> FALSE, errors |-> <<>>]] :
            k \in {"ok_no_body", "network_error"}}

\* what makeRequest settles with for a reply of fetch (lines 36-64)
MakeRequestResult(reply) ==
    CASE reply.kind = "network_error" ->
            Settled("throw", reply.body, Msg("network", 0, <<>>))
      [] reply.kind = "detail_string" ->
            Settled("throw", reply.body, Msg("detail", 0, <<>>))
      [] reply.kind = "detail_array" ->
            Settled("throw", reply.body, Msg("field_errors", 0, <<>>))
      [] reply.kind = "detail_absent" ->
            Settled("throw", reply.body, Msg("api_error", 0, <<>>))
      [] reply.kind = "not_json" ->
            Settled("throw", reply.body, Msg("server_error", 0, ToStr(reply.status)))
      [] reply.kind = "ok_json" ->
            Settled("value", reply.body, Null)
      [] reply.kind = "ok_no_body" ->
            Settled("undefined", reply.body, Null)

\* variant: the spread of line 245 in the other order
CombineErrors_ServerFirst(client, server) == server \o client

\* the errors of the final result (line 245)
CombineErrors(client, server) == client \o server

\* variant: the catch block appends its message to the client errors
ResultOf_CatchKeepsClient(settled, client) ==
    CASE settled.kind = "value" ->
            BulkResult(IF settled.body.hasSuccess THEN settled.body.success ELSE 0,
                       CombineErrors(client, IF settled.body.hasErrors
                                             THEN settled.body.errors ELSE <<>>))
      [] settled.kind = "undefined" ->
            BulkResult(0, Append(client, Msg("type_error", 0, <<>>)))
      [] settled.kind = "throw" ->
            BulkResult(0, Append(client, settled.message))

\* lines 244-246 for a value, the catch block for a throw; a reply without a
\* JSON body makes `response.errors` throw a TypeError, caught at line 247
ResultOf(settled, client) ==
    CASE settled.kind = "value" ->
            BulkResult(IF settled.body.hasSuccess THEN settled.body.success ELSE 0,
                       CombineErrors(client, IF settled.body.hasErrors
                                             THEN settled.body.errors ELSE <<>>))
      [] settled.kind = "undefined" ->
            BulkResult(0, <<Msg("type_error", 0, <<>>)>>)
      [] settled.kind = "throw" ->
            BulkResult(0, <<settled.message>>)

\* makeRequest fails before fetch: no user, or getIdToken rejects (part_003:16-21)
RequestNotSent ==
    /\ pc = "token"
    /\ \E m \in {Msg("not_authenticated", 0, <<>>), Msg("token_failed", 0, <<>>)} :
        LET settled == Settled("throw", NoResponse, m)
        IN  /\ response' = settled
            /\ Finish(ResultOf(settled, clientErrors))
    /\ trail' = Append(trail, "Done")
    /\ UNCHANGED <<file, rows, examined, clientErrors, validRows, requests,
                   besidesImport>>

\* variant: the body carries the first validated row only
RequestSent_FirstRowOnly ==
    /\ pc = "token"
    /\ requests' = Append(requests, <<validRows[1]>>)
    /\ pc' = "fetch"
    /\ trail' = trail
    /\ UNCHANGED <<isProcessing, progress, results, file, rows, examined,
                   clientErrors, validRows, response, besidesImport>>

\* makeRequest has the token and calls fetch with the body of line 241
RequestSent ==
    /\ pc = "token"
    /\ requests' = Append(requests, validRows)
    /\ pc' = "fetch"
    /\ trail' = trail
    /\ UNCHANGED <<isProcessing, progress, results, file, rows, examined,
                   clientErrors, validRows, response, besidesImport>>

\* fetch settles; makeRequest settles; lines 244-254 run
RequestSettled ==
    /\ pc = "fetch"
    /\ \E reply \in HttpReplies(Len(validRows)) :
        LET settled == MakeRequestResult(reply)
        IN  /\ response' = settled
            /\ Finish(ResultOf(settled, clientErrors))
    /\ trail' = Append(trail, "Done")
    /\ UNCHANGED <<file, rows, examined, clientErrors, validRows, requests,
                   besidesImport>>

(***************************************************************************)
(* Session gate: AdminAuthWrapper (AdminAuthWrapper.tsx:73-149) and         *)
(* handleLogout (unnamed/part_001:12-16)                                   *)
(***************************************************************************)
MaxTime == 60000
MaxMounts == 2
MaxLookups == 2

CACHE_TTL == 60 * 1000
Uids == {"a", "b"}
NoUser == "none"
TickSteps == {29999, 30000}

NoEntry == [verified |-> FALSE, timestamp |-> -1]
CacheEntry(t) == [verified |-> TRUE, timestamp |-> t]
EmptyCache == [u \in Uids |-> NoEntry]

\* variant: an entry exactly CACHE_TTL old still counts
isCachedAdmin_Inclusive(cache, uid, t) ==
    IF uid = NoUser THEN FALSE
    ELSE /\ cache[uid] # NoEntry
         /\ cache[uid].verified
         /\ (t - cache[uid].timestamp) <= CACHE_TTL

\* isCachedAdmin(uid) evaluated at time t (lines 82-86); adminCache.get(uid)
\* is undefined where the model has NoEntry
isCachedAdmin(cache, uid, t) ==
    IF uid = NoUser THEN FALSE
    ELSE /\ cache[uid] # NoEntry
         /\ cache[uid].verified
         /\ (t - cache[uid].timestamp) < CACHE_TTL

\* the component's return value (lines 135-148)
Render(verifying, admin, cachedOnMount) ==
    IF verifying /\ ~cachedOnMount THEN "blank"
    ELSE IF admin THEN "children"
    ELSE "null"

\* the effect body up to the call of verifyAdmin (lines 98-132), for the
\* instance state (admin, verifying, ref) and the auth context (u, loading)
EffectOut(admin, verifying, ref, u, loading, cache, t) ==
    LET same == [isAdmin |-> admin, isVerifying |-> verifying,
                 verifiedRef |-> ref, push |-> FALSE, launch |-> FALSE]
    IN  IF loading THEN same
        ELSE IF u = NoUser THEN [same EXCEPT !.push = TRUE]
        ELSE IF isCachedAdmin(cache, u, t)
            THEN [same EXCEPT !.isAdmin = TRUE, !.isVerifying = FALSE,
                              !.verifiedRef = TRUE]
        ELSE IF ref THEN same
        ELSE [same EXCEPT !.launch = TRUE]

\* the state of the current instance i after a render and an effect run
\* under the auth context (u, loading)
ApplyEffect(i, admin, verifying, ref, u, loading) ==
    LET out == EffectOut(admin, verifying, ref, u, loading, adminCache, now)
    IN  /\ out.launch => issued < MaxLookups
        /\ isAdmin' = out.isAdmin
        /\ isVerifying' = out.isVerifying
        /\ verifiedRef' = out.verifiedRef
        /\ redirect' = (redirect \/ out.push)
        /\ lookups' = IF out.launch
                      THEN lookups \cup {[id |-> issued + 1, inst |-> i, uid |-> u]}
                      ELSE lookups
        /\ issued' = IF out.launch THEN issued + 1 ELSE issued
        /\ rendered' = Render(out.isVerifying, out.isAdmin,
                              isCachedAdmin(adminCache, u, now))

\* a gate instance mounts: useState/useRef initial values (lines 93-96), the
\* first render and the first effect run
Mount ==
    /\ ~mounted
    /\ inst < MaxMounts
    /\ mounted' = TRUE
    /\ inst' = inst + 1
    /\ LET cachedOnMount == isCachedAdmin(adminCache, user, now)
       IN  ApplyEffect(inst + 1, cachedOnMount, ~cachedOnMount, cachedOnMount, user,
                       authLoading)
    /\ UNCHANGED <<user, authLoading, now, adminCache, alerts, loggingOut,
                   positive, denied, besidesGate>>

\* the gate unmounts (navigation); its state is dropped
Unmount ==
    /\ mounted
    /\ mounted' = FALSE
    /\ isAdmin' = FALSE
    /\ isVerifying' = FALSE
    /\ verifiedRef' = FALSE
    /\ rendered' = "unmounted"
    /\ redirect' = FALSE
    /\ UNCHANGED <<user, authLoading, now, adminCache, inst, lookups, issued,
                   alerts, loggingOut, positive, denied, besidesGate>>

\* the auth context changes (sign-in resolved, sign-out, another account):
\* a mounted gate re-renders and its effect runs again (deps of line 133)
AuthChange ==
    /\ ~loggingOut
    /\ \E u \in Uids \cup {NoUser} :
        /\ authLoading \/ u # user
        /\ user' = u
        /\ authLoading' = FALSE
        /\ IF mounted
           THEN /\ ApplyEffect(inst, isAdmin, isVerifying, verifiedRef, u, FALSE)
                /\ UNCHANGED inst
           ELSE UNCHANGED <<inst, isAdmin, isVerifying, verifiedRef, rendered,
                            lookups, issued, redirect>>
    /\ denied' = {}
    /\ UNCHANGED <<now, adminCache, mounted, alerts, loggingOut, positive,
                   besidesGate>>

\* getDoc resolves with isAdmin === true (lines 121-124, 129)
LookupPositive ==
    /\ \E l \in lookups :
        /\ lookups' = lookups \ {l}
        /\ adminCache' = [adminCache EXCEPT ![l.uid] = CacheEntry(now)]
        /\ positive' = positive \cup {l.uid}
        /\ IF mounted /\ l.inst = inst
           THEN /\ isAdmin' = TRUE
                /\ verifiedRef' = TRUE
                /\ isVerifying' = FALSE
                /\ rendered' = Render(FALSE, TRUE, isCachedAdmin(adminCache', user, now))
           ELSE UNCHANGED <<isAdmin, verifiedRef, isVerifying, rendered>>
    /\ UNCHANGED <<user, authLoading, now, mounted, inst, issued, alerts,
                   redirect, loggingOut, denied, besidesGate>>

\* variant: the cache is written before the admin flag is tested
LookupNegative_Caches ==
    /\ \E l \in lookups :
        /\ lookups' = lookups \ {l}
        /\ adminCache' = [adminCache EXCEPT ![l.uid] = CacheEntry(now)]
        /\ alerts' = alerts + 1
        /\ denied' = denied \cup {[inst |-> l.inst, uid |-> l.uid]}
        /\ redirect' = TRUE
        /\ IF mounted /\ l.inst = inst
           THEN /\ isVerifying' = FALSE
                /\ rendered' = Render(FALSE, isAdmin, isCachedAdmin(adminCache, user, now))
           ELSE UNCHANGED <<isVerifying, rendered>>
    /\ UNCHANGED <<user, authLoading, now, mounted, inst, isAdmin,
                   verifiedRef, issued, loggingOut, positive, besidesGate>>

\* getDoc resolves with no document or without isAdmin === true (125-129)
LookupNegative ==
    /\ \E l \in lookups :
        /\ lookups' = lookups \ {l}
        /\ alerts' = alerts + 1
        /\ denied' = denied \cup {[inst |-> l.inst, uid |-> l.uid]}
        /\ redirect' = TRUE
        /\ IF mounted /\ l.inst = inst
           THEN /\ isVerifying' = FALSE
                /\ rendered' = Render(FALSE, isAdmin, isCachedAdmin(adminCache, user, now))
           ELSE UNCHANGED <<isVerifying, rendered>>
    /\ UNCHANGED <<user, authLoading, now, adminCache, mounted, inst, isAdmin,
                   verifiedRef, issued, loggingOut, positive, besidesGate>>

\* getDoc rejects: verifyAdmin's promise rejects at line 119, nothing after
\* the await runs
LookupRejected ==
    /\ \E l \in lookups : lookups' = lookups \ {l}
    /\ UNCHANGED <<user, authLoading, now, adminCache, mounted, inst, isAdmin,
                   isVerifying, verifiedRef, rendered, issued, alerts,
                   redirect, loggingOut, positive, denied, besidesGate>>

\* time passes
Tick ==
    /\ \E dt \in TickSteps :
        /\ now + dt <= MaxTime
        /\ now' = now + dt
    /\ UNCHANGED <<user, authLoading, adminCache, mounted, inst, isAdmin,
                   isVerifying, verifiedRef, rendered, lookups, issued, alerts,
                   redirect, loggingOut, positive, denied, besidesGate>>

\* handleLogout up to `await logout()` (part_001:12-14)
LogoutStart ==
    /\ rendered = "children"
    /\ ~loggingOut
    /\ adminCache' = EmptyCache
    /\ loggingOut' = TRUE
    /\ UNCHANGED <<user, authLoading, now, mounted, inst, isAdmin, isVerifying,
                   verifiedRef, rendered, lookups, issued, alerts, redirect,
                   positive, denied, besidesGate>>

\* logout() resolves: the auth context has no user, a mounted gate's effect
\* runs again, and handleLogout pushes /login (part_001:14-15)
LogoutDone ==
    /\ loggingOut
    /\ loggingOut' = FALSE
    /\ user' = NoUser
    /\ authLoading' = FALSE
    /\ IF mounted
       THEN /\ ApplyEffect(inst, isAdmin, isVerifying, verifiedRef, NoUser, FALSE)
            /\ UNCHANGED inst
       ELSE /\ redirect' = TRUE
            /\ UNCHANGED <<inst, isAdmin, isVerifying, verifiedRef, rendered,
                           lookups, issued>>
    /\ denied' = {}
    /\ UNCHANGED <<now, adminCache, mounted, alerts, positive, besidesGate>>

InitGate ==
    /\ user = NoUser
    /\ authLoading = TRUE
    /\ now = 0
    /\ adminCache = EmptyCache
    /\ mounted = FALSE
    /\ inst = 0
    /\ isAdmin = FALSE
    /\ isVerifying = FALSE
    /\ verifiedRef = FALSE
    /\ rendered = "unmounted"
    /\ lookups = {}
    /\ issued = 0
    /\ alerts = 0
    /\ redirect = FALSE
    /\ loggingOut = FALSE
    /\ positive = {}
    /\ denied = {}

NextGate ==
    \/ Mount
    \/ Unmount
    \/ AuthChange
    \/ LookupPositive
    \/ LookupNegative
    \/ LookupRejected
    \/ Tick
    \/ LogoutStart
    \/ LogoutDone

(***************************************************************************)
(* Identity resolver (spec section 4.3): resolve(email), memoized per run  *)
(***************************************************************************)
MaxIdRows == 4

JohnLower == toLowerCase(JohnMixed)
IdEmails == {JohnMixed, JohnLower, <<" ">> \o JaneLower}
\* the canonical form of an email: lowercased and trimmed
NormalizedEmail(email) == trim(toLowerCase(email))
IdKeys == {NormalizedEmail(e) : e \in IdEmails}
IdRowSeqs == UNION {[1..n -> IdEmails] : n \in 0..MaxIdRows}
Unresolved == "unresolved"
IdOutcomes == {"user_id", "not_found"}
EmptyIdentityCache == [k \in IdKeys |-> Unresolved]
NoLookups == [k \in IdKeys |-> 0]

\* a run starts: a fresh IdentityCache for its rows
ResolveRunStart ==
    /\ idNext > Len(idRows)
    /\ idPending = <<>>
    /\ \E rs \in IdRowSeqs : idRows' = rs
    /\ idNext' = 1
    /\ identityCache' = EmptyIdentityCache
    /\ idLookups' = NoLookups
    /\ UNCHANGED <<idPending, besidesResolver>>

\* resolve(email) finds the email in the IdentityCache
ResolveHit ==
    /\ idNext <= Len(idRows)
    /\ idPending = <<>>
    /\ identityCache[NormalizedEmail(idRows[idNext])] # Unresolved
    /\ idNext' = idNext + 1
    /\ UNCHANGED <<idRows, identityCache, idPending, idLookups, besidesResolver>>

\* resolve(email) misses the IdentityCache and issues the external lookup
ResolveMiss ==
    /\ idNext <= Len(idRows)
    /\ idPending = <<>>
    /\ LET k == NormalizedEmail(idRows[idNext])
       IN  /\ identityCache[k] = Unresolved
           /\ idPending' = k
           /\ idLookups' = [idLookups EXCEPT ![k] = @ + 1]
    /\ UNCHANGED <<idRows, idNext, identityCache, besidesResolver>>

\* variant: only a resolved identifier is cached, not the not-found marker
ResolveSettled_FoundOnly ==
    /\ idPending # <<>>
    /\ \E o \in IdOutcomes :
        identityCache' = IF o = "user_id"
                         THEN [identityCache EXCEPT ![idPending] = o]
                         ELSE identityCache
    /\ idPending' = <<>>
    /\ idNext' = idNext + 1
    /\ UNCHANGED <<idRows, idLookups, besidesResolver>>

\* the external lookup settles: the identifier or the not-found marker is
\* cached and the row is done
ResolveSettled ==
    /\ idPending # <<>>
    /\ \E o \in IdOutcomes :
        identityCache' = [identityCache EXCEPT ![idPending] = o]
    /\ idPending' = <<>>
    /\ idNext' = idNext + 1
    /\ UNCHANGED <<idRows, idLookups, besidesResolver>>

InitResolveIdle ==
    /\ idRows = <<>>
    /\ idNext = 1
    /\ identityCache = EmptyIdentityCache
    /\ idPending = <<>>
    /\ idLookups = NoLookups

NextResolve ==
    \/ ResolveRunStart
    \/ ResolveHit
    \/ ResolveMiss
    \/ ResolveSettled

(***************************************************************************)
(* Payouts screen: PayoutsContent (unnamed/part_005:46-148)                *)
(***************************************************************************)
MaxPayoutMounts == 2
MaxActions == 2
MaxServerVer == 1
MaxInFlight == 2

PayoutIds == {"p1", "p2"}
NoId == "null"
ActionKinds == {"approve", "reject", "complete"}

\* isActioning (line 84)
isActioning(approving, rejecting, completing) ==
    approving # NoId \/ rejecting # NoId \/ completing # NoId

\* the polling effect of lines 86-91 after a render with these values: the
\* cleanup of the previous run has cleared its interval, and a new interval
\* is set unless the effect returns early
PollEffect(auto, approving, rejecting, completing) ==
    ~(~auto \/ isActioning(approving, rejecting, completing))

\* the three id states with the one of `kind` set to v
WithId(kind, v) ==
    [approve  |-> IF kind = "approve" THEN v ELSE approvingId,
     reject   |-> IF kind = "reject" THEN v ELSE rejectingId,
     complete |-> IF kind = "complete" THEN v ELSE completingId]

\* a state update of the mounted screen followed by its effects
SetIds(ids) ==
    /\ approvingId' = ids.approve
    /\ rejectingId' = ids.reject
    /\ completingId' = ids.complete
    /\ timer' = PollEffect(autoRefresh, ids.approve, ids.reject, ids.complete)

NoAction == [kind |-> "none", id |-> NoId, inst |-> 0]
NoLists == -1

\* fetchPayouts up to the await of line 64, called by instance i; the
\* backend answers with the lists as they are when the requests arrive
FetchPayoutsStart(i, src, act) ==
    /\ Cardinality(pFetches) < MaxInFlight
    /\ pFetches' = pFetches \cup
                  {[inst |-> i, data |-> serverVer', src |-> src, act |-> act]}

\* first render and effects: the fetch of lines 79-81, the interval of 86-91
PayoutsMount ==
    /\ ~pMounted
    /\ pInst < MaxPayoutMounts
    /\ pMounted' = TRUE
    /\ pInst' = pInst + 1
    /\ autoRefresh' = TRUE
    /\ approvingId' = NoId
    /\ rejectingId' = NoId
    /\ completingId' = NoId
    /\ timer' = PollEffect(TRUE, NoId, NoId, NoId)
    /\ shown' = NoLists
    /\ shownSrc' = "none"
    /\ settledVer' = NoLists
    /\ serverVer' = serverVer
    /\ FetchPayoutsStart(pInst + 1, "mount", NoAction)
    /\ UNCHANGED <<pActions, besidesPayouts>>

\* teardown: the cleanup of line 90 clears the interval
PayoutsUnmount ==
    /\ pMounted
    /\ pMounted' = FALSE
    /\ timer' = FALSE
    /\ UNCHANGED <<pInst, autoRefresh, approvingId, rejectingId, completingId,
                   pActions, serverVer, pFetches, shown, shownSrc, settledVer,
                   besidesPayouts>>

\* the auto-refresh button (line 263)
ToggleAutoRefresh ==
    /\ pMounted
    /\ autoRefresh' = ~autoRefresh
    /\ timer' = PollEffect(~autoRefresh, approvingId, rejectingId, completingId)
    /\ UNCHANGED <<pMounted, pInst, approvingId, rejectingId, completingId,
                   pActions, serverVer, pFetches, shown, shownSrc, settledVer,
                   besidesPayouts>>

\* the interval of line 89 fires
PollTick ==
    /\ timer
    /\ serverVer' = serverVer
    /\ FetchPayoutsStart(pInst, "poll", NoAction)
    /\ UNCHANGED <<pMounted, pInst, autoRefresh, approvingId, rejectingId,
                   completingId, timer, pActions, shown, shownSrc, settledVer,
                   besidesPayouts>>

\* the Refresh and Retry buttons (lines 250, 330)
ManualRefresh ==
    /\ pMounted
    /\ serverVer' = serverVer
    /\ FetchPayoutsStart(pInst, "manual", NoAction)
    /\ UNCHANGED <<pMounted, pInst, autoRefresh, approvingId, rejectingId,
                   completingId, timer, pActions, shown, shownSrc, settledVer,
                   besidesPayouts>>

\* handleApprovePayout / handleRejectPayout / handleCompletePayout up to the
\* first await (lines 99-105, 115-121, 133-139); the button of a payout is
\* disabled only while that payout's id is the one stored for its kind
ActionStart ==
    /\ pMounted
    /\ Cardinality(pActions) < MaxActions
    /\ \E kind \in ActionKinds, id \in PayoutIds :
        /\ (IF kind = "approve" THEN approvingId
            ELSE IF kind = "reject" THEN rejectingId ELSE completingId) # id
        /\ [kind |-> kind, id |-> id, inst |-> pInst] \notin pActions
        /\ pActions' = pActions \cup {[kind |-> kind, id |-> id, inst |-> pInst]}
        /\ SetIds(WithId(kind, id))
    /\ UNCHANGED <<pMounted, pInst, autoRefresh, serverVer, pFetches, shown,
                   shownSrc, settledVer, besidesPayouts>>

\* the request of an action succeeds: the alert, then the follow-up
\* fetchPayouts is called and awaited (lines 107-108, 124-125, 141-142)
ActionSucceeded ==
    /\ serverVer < MaxServerVer
    /\ \E a \in pActions :
        /\ ~\E f \in pFetches : f.act = a
        /\ serverVer' = serverVer + 1
        /\ FetchPayoutsStart(a.inst, "action", a)
    /\ UNCHANGED <<pMounted, pInst, autoRefresh, approvingId, rejectingId,
                   completingId, timer, pActions, shown, shownSrc, settledVer,
                   besidesPayouts>>

\* the request of an action fails: the catch block, then the finally block
\* sets its kind's id to null (lines 109-111, 126-130, 143-147)
ActionEnd ==
    /\ \E a \in pActions :
        /\ ~\E f \in pFetches : f.act = a
        /\ pActions' = pActions \ {a}
        /\ IF pMounted /\ a.inst = pInst
           THEN SetIds(WithId(a.kind, NoId))
           ELSE UNCHANGED <<approvingId, rejectingId, completingId, timer>>
    /\ UNCHANGED <<pMounted, pInst, autoRefresh, serverVer, pFetches, shown,
                   shownSrc, settledVer, besidesPayouts>>

\* a fetchPayouts call settles (lines 64-76): the lists are set when both
\* requests were fulfilled; the handler that awaited it runs its finally
FetchPayoutsSettled ==
    /\ \E f \in pFetches, ok \in BOOLEAN :
        LET live == pMounted /\ f.inst = pInst
        IN  /\ pFetches' = pFetches \ {f}
            /\ shown' = IF live /\ ok THEN f.data ELSE shown
            /\ shownSrc' = IF live /\ ok THEN f.src ELSE shownSrc
            /\ IF f.act = NoAction
               THEN UNCHANGED <<pActions, approvingId, rejectingId,
                                completingId, timer, settledVer>>
               ELSE /\ pActions' = pActions \ {f.act}
                    /\ settledVer' = IF live /\ ok /\ f.data > settledVer
                                     THEN f.data ELSE settledVer
                    /\ IF live
                       THEN SetIds(WithId(f.act.kind, NoId))
                       ELSE UNCHANGED <<approvingId, rejectingId, completingId,
                                        timer>>
    /\ UNCHANGED <<pMounted, pInst, autoRefresh, serverVer, besidesPayouts>>

InitPayoutsIdle ==
    /\ pMounted = FALSE
    /\ pInst = 0
    /\ autoRefresh = TRUE
    /\ approvingId = NoId
    /\ rejectingId = NoId
    /\ completingId = NoId
    /\ timer = FALSE
    /\ pActions = {}
    /\ serverVer = 0
    /\ pFetches = {}
    /\ shown = NoLists
    /\ shownSrc = "none"
    /\ settledVer = NoLists

NextPayouts ==
    \/ PayoutsMount
    \/ PayoutsUnmount
    \/ ToggleAutoRefresh
    \/ PollTick
    \/ ManualRefresh
    \/ ActionStart
    \/ ActionSucceeded
    \/ ActionEnd
    \/ FetchPayoutsSettled

(***************************************************************************)
(* Dashboard: dataCache and fetchData (app/page.tsx:29-139)                *)
(***************************************************************************)
MaxFetches == 3
MaxDashTime == 150000

\* CACHE_TTL = 60 * 1000 (line 34)
CACHE_TTL_Dashboard == 60000
DashStart == 60 * 1000      \* Date.now() is far beyond CACHE_TTL at load
DashTickSteps == {30000}
NoData == 0                 \* null; data of fetchData call k is k
EmptyDataCache == [stats |-> NoData, users |-> NoData, timestamp |-> 0]

\* the test of line 99
DataCacheFresh(cache, t) ==
    /\ cache.stats # NoData
    /\ cache.users # NoData
    /\ (t - cache.timestamp) < CACHE_TTL_Dashboard

\* fetchData up to the await of line 64
FetchDataStart ==
    /\ dIssued < MaxFetches
    /\ dIssued' = dIssued + 1
    /\ dFetches' = dFetches \cup {dIssued + 1}

\* the mount effect (lines 95-107): a fresh cache is shown, else fetchData()
DashMount ==
    /\ ~dMounted
    /\ dMounted' = TRUE
    /\ IF DataCacheFresh(dataCache, dNow)
       THEN UNCHANGED <<dFetches, dIssued>>
       ELSE FetchDataStart
    /\ UNCHANGED <<dataCache, dNow, besidesDashboard>>

DashUnmount ==
    /\ dMounted
    /\ dMounted' = FALSE
    /\ UNCHANGED <<dataCache, dNow, dFetches, dIssued, besidesDashboard>>

\* fetchData(true): after a user was created, Retry, Refresh (123, 174, 197)
DashRefresh ==
    /\ dMounted
    /\ FetchDataStart
    /\ UNCHANGED <<dataCache, dNow, dMounted, besidesDashboard>>

\* lines 69-84 for fetchData call k: the writes to dataCache
DataCacheAfter(cache, k, statsOk, usersOk, t) ==
    [stats     |-> IF statsOk THEN k ELSE cache.stats,
     users     |-> IF usersOk THEN k ELSE cache.users,
     timestamp |-> IF statsOk /\ usersOk THEN t ELSE cache.timestamp]

\* Promise.allSettled resolves for a fetchData call (lines 64-91)
FetchDataSettled ==
    /\ \E k \in dFetches, statsOk \in BOOLEAN, usersOk \in BOOLEAN :
        /\ dFetches' = dFetches \ {k}
        /\ dataCache' = DataCacheAfter(dataCache, k, statsOk, usersOk, dNow)
    /\ UNCHANGED <<dNow, dMounted, dIssued, besidesDashboard>>

\* handleLogout clears the data cache (lines 131-136)
DashLogout ==
    /\ dMounted
    /\ dataCache' = EmptyDataCache
    /\ dMounted' = FALSE
    /\ UNCHANGED <<dNow, dFetches, dIssued, besidesDashboard>>

DashTick ==
    /\ \E dt \in DashTickSteps :
        /\ dNow + dt <= MaxDashTime
        /\ dNow' = dNow + dt
    /\ UNCHANGED <<dataCache, dMounted, dFetches, dIssued, besidesDashboard>>

InitDashboardIdle ==
    /\ dataCache = EmptyDataCache
    /\ dNow = DashStart
    /\ dMounted = FALSE
    /\ dFetches = {}
    /\ dIssued = 0

NextDashboard ==
    \/ DashMount
    \/ DashUnmount
    \/ DashRefresh
    \/ FetchDataSettled
    \/ DashLogout
    \/ DashTick

(***************************************************************************)
(* Row normalization in parseCsv and parseXlsx (CsvUpload.tsx:78-90,       *)
(* 112-124)                                                                *)
(***************************************************************************)
\* normalized[key] of a column the record does not have
Undefined == <<"undefined">>
NoRaw == Row(<<>>, <<>>, <<>>, <<>>, <<>>)
NoRow == Row(Undefined, Undefined, NaN, Undefined, Undefined)

\* parseInt(s, 10): leading white space, a sign, then the longest run of
\* digits; NaN when there is no digit
parseInt(s) ==
    LET ink    == {i \in 1..Len(s) : s[i] \notin WhiteSpace}
        start  == IF ink = {} THEN Len(s) + 1 ELSE SetMin(ink)
        signed == start <= Len(s) /\ s[start] \in {"-", "+"}
        from   == IF signed THEN start + 1 ELSE start
        stops  == {i \in from..Len(s) : ~IsDigit(s[i])} \cup {Len(s) + 1}
        to     == SetMin(stops) - 1
        mag    == ToNum(SubSeq(s, from, to))
    IN  IF to < from THEN NaN
        ELSE IF signed /\ s[start] = "-" THEN Num(-mag) ELSE Num(mag)

\* normalized['x'] || dflt
OrElse(v, dflt) == IF v = Undefined \/ v = <<>> THEN dflt ELSE v

\* the object literal of lines 83-89 and 117-123
NormalizeRecord(raw) ==
    Row(OrElse(raw.email, <<>>), OrElse(raw.date, <<>>),
        parseInt(OrElse(raw.amount, <<"0">>)),
        OrElse(raw.type, <<>>), OrElse(raw.status, <<>>))

RawEmails == {Undefined, <<>>, JohnMixed}
RawDates == {Undefined, Date15Jan2025}
RawAmounts == {Undefined, <<>>, <<"0">>, <<"5","0">>, <<" ","1","2","a","b">>,
               <<"a","b","c">>, <<"-","1">>, <<"1","0","0","0","0","1">>}
RawTypes == {Undefined, CreditPurchase}
RawStatuses == {Undefined, <<"p","a","i","d">>, <<" ","P","E","N","D","I","N","G">>}
RawRecords == [email : RawEmails, date : RawDates, amount : RawAmounts,
               type : RawTypes, status : RawStatuses]

\* the map callback of the parser for one raw record
NormalizeStep ==
    /\ vRaw # NoRaw
    /\ vRow = NoRow
    /\ vRow' = NormalizeRecord(vRaw)
    /\ UNCHANGED <<vNum, vOut, vRaw, besidesValidate>>

(***************************************************************************)
(* User detail screen: transactions and their pagination                   *)
(* (app/users/[userId]/page.tsx:96-213, Pagination.tsx:13-93)              *)
(***************************************************************************)
MaxTxRequests == 3

ITEMS_PER_PAGE == 10
InitialTxCounts == {1, 11, 12}

\* Math.max(1, Math.ceil(n / ITEMS_PER_PAGE))
MaxPageOf(n) ==
    LET pages == (n + ITEMS_PER_PAGE - 1) \div ITEMS_PER_PAGE
    IN  IF pages < 1 THEN 1 ELSE pages

\* paginatedTx (lines 146-149): the ids shown on page `page` of the list
PaginatedTx(list, page) ==
    {t \in list :
        LET pos == Cardinality({u \in list : u <= t})
        IN  (page - 1) * ITEMS_PER_PAGE < pos /\ pos <= page * ITEMS_PER_PAGE}

\* the pages the buttons of Pagination lead to (lines 14, 54-55, 62-84); it
\* is rendered when the list is not empty (line 542)
PageTargets(list, page) ==
    LET totalPages == MaxPageOf(Cardinality(list))
    IN  IF list = {} \/ totalPages <= 1 THEN {}
        ELSE (IF page = 1 THEN {} ELSE {page - 1})
             \cup (IF page = totalPages THEN {} ELSE {page + 1})
             \cup (IF totalPages <= 5 THEN 1..totalPages
                   ELSE {1, totalPages}
                        \cup {i \in (page - 1)..(page + 1) :
                                 2 <= i /\ i <= totalPages - 1})

\* fetchData up to its await (lines 115-119): after mount, and after a form
\* was submitted (line 164)
FetchDataCalled ==
    /\ txIssued < MaxTxRequests
    /\ txIssued' = txIssued + 1
    /\ txFetches' = txFetches \cup {[id |-> txIssued + 1, data |-> serverTx]}
    /\ UNCHANGED <<transactions, txPage, serverTx, txDeletes, besidesDetail>>

\* fetchData after its await (lines 120-125)
FetchDataReturned ==
    /\ \E f \in txFetches, ok \in BOOLEAN :
        /\ txFetches' = txFetches \ {f}
        /\ transactions' = IF ok THEN f.data ELSE transactions
        /\ txPage' = IF ok THEN 1 ELSE txPage
    /\ UNCHANGED <<serverTx, txDeletes, txIssued, besidesDetail>>

\* a button of Pagination is clicked: onPageChange = setTxPage (line 546)
PageClick ==
    /\ \E p \in PageTargets(transactions, txPage) : txPage' = p
    /\ UNCHANGED <<transactions, serverTx, txDeletes, txFetches, txIssued,
                   besidesDetail>>

\* handleDeleteTransaction up to its await (lines 200-203), for a row of the
\* page shown; the handler keeps the txPage of the render it was made in
DeleteCalled ==
    /\ txIssued < MaxTxRequests
    /\ \E t \in PaginatedTx(transactions, txPage) :
        txDeletes' = txDeletes \cup {[id |-> t, page |-> txPage, applied |-> FALSE]}
    /\ txIssued' = txIssued + 1
    /\ UNCHANGED <<transactions, txPage, serverTx, txFetches, besidesDetail>>

\* the backend deletes the transaction
DeleteApplied ==
    /\ \E d \in txDeletes :
        /\ ~d.applied
        /\ txDeletes' = (txDeletes \ {d}) \cup {[d EXCEPT !.applied = TRUE]}
        /\ serverTx' = serverTx \ {d.id}
    /\ UNCHANGED <<transactions, txPage, txFetches, txIssued, besidesDetail>>

\* the DELETE request settles: the updater of lines 204-209, or the catch
DeleteReturned ==
    /\ \E d \in txDeletes :
        /\ txDeletes' = txDeletes \ {d}
        /\ IF d.applied
           THEN LET updated == transactions \ {d.id}
                    maxPage == MaxPageOf(Cardinality(updated))
                IN  /\ transactions' = updated
                    /\ txPage' = IF d.page > maxPage THEN maxPage ELSE txPage
           ELSE UNCHANGED <<transactions, txPage>>
    /\ UNCHANGED <<serverTx, txFetches, txIssued, besidesDetail>>

\* the screen right after mount: the effect of lines 139-142 has called
\* fetchData
InitDetail ==
    /\ serverTx \in {1..n : n \in InitialTxCounts}
    /\ transactions = {}
    /\ txPage = 1
    /\ txDeletes = {}
    /\ txFetches = {[id |-> 1, data |-> serverTx]}
    /\ txIssued = 1

\* the screen is not open
InitDetailIdle ==
    /\ serverTx = 1..11
    /\ transactions = {}
    /\ txPage = 1
    /\ txDeletes = {}
    /\ txFetches = {}
    /\ txIssued = 0

NextDetail ==
    \/ FetchDataCalled
    \/ FetchDataReturned
    \/ PageClick
    \/ DeleteCalled
    \/ DeleteApplied
    \/ DeleteReturned

InitImport ==
    /\ isProcessing = FALSE
    /\ progress = ""
    /\ results = NoResult
    /\ pc = "idle"
    /\ file = NoFile
    /\ rows = <<>>
    /\ examined = 0
    /\ clientErrors = <<>>
    /\ validRows = <<>>
    /\ requests = <<>>
    /\ response = Settled("none", NoResponse, Null)
    /\ trail = <<>>

InitValidateIdle ==
    /\ vRow = PlainRow
    /\ vNum = 2
    /\ vOut = Pending
    /\ vRaw = NoRaw

Init ==
    /\ InitImport
    /\ InitValidateIdle
    /\ InitGate
    /\ InitResolveIdle
    /\ InitPayoutsIdle
    /\ InitDashboardIdle
    /\ InitDetailIdle

Next ==
    \/ UploadNoFile
    \/ UploadUnsupported
    \/ UploadStart
    \/ ParseRejected
    \/ ParsedEmpty
    \/ ParsedTooMany
    \/ ParsedValidate
    \/ RequestNotSent
    \/ RequestSent
    \/ RequestSettled

Spec == Init /\ [][Next]_vars

\* a suspended handleFileUpload resumes: the file read, the token request
\* and the fetch each settle eventually (every such step changes pc, and
\* one of the continuations above is enabled wherever pc is not "idle")
Settle ==
    /\ pc # "idle"
    /\ pc' \in {"idle", "token", "fetch"}
    /\ pc' # pc

LiveSpec == Init /\ [][Next]_vars /\ WF_pc(Settle)

\* validateRow on its own: every row of ValRows, once
ValidateRowStep ==
    /\ vOut = Pending
    /\ vRow # NoRow
    /\ vOut' = validateRow(vRow, vNum)
    /\ UNCHANGED <<vRow, vNum, vRaw, besidesValidate>>

InitValidate ==
    /\ InitImport
    /\ InitGate
    /\ InitResolveIdle
    /\ InitPayoutsIdle
    /\ InitDashboardIdle
    /\ InitDetailIdle
    /\ vRow \in ValRows
    /\ vNum \in {2, 1001}
    /\ vOut = Pending
    /\ vRaw = NoRaw

ValidateSpec == InitValidate /\ [][ValidateRowStep]_vars

InitNormalize ==
    /\ InitImport
    /\ InitGate
    /\ InitResolveIdle
    /\ InitPayoutsIdle
    /\ InitDashboardIdle
    /\ InitDetailIdle
    /\ vRaw \in RawRecords
    /\ vRow = NoRow
    /\ vNum \in {2, 1001}
    /\ vOut = Pending

NextNormalize ==
    \/ NormalizeStep
    \/ ValidateRowStep

NormalizeSpec == InitNormalize /\ [][NextNormalize]_vars

GateSpec == Init /\ [][NextGate]_vars
ResolveSpec == Init /\ [][NextResolve]_vars
PayoutSpec == Init /\ [][NextPayouts]_vars
DashSpec == Init /\ [][NextDashboard]_vars
InitDetailOpen ==
    /\ InitImport
    /\ InitValidateIdle
    /\ InitGate
    /\ InitResolveIdle
    /\ InitPayoutsIdle
    /\ InitDashboardIdle
    /\ InitDetail

DetailSpec == InitDetailOpen /\ [][NextDetail]_vars

(***************************************************************************)
(* Properties of the import run                                            *)
(***************************************************************************)
\* the row passes every rule of validateRow (the row number only names it)
Passes(row) == validateRow(row, 2) = Null

\* number of rows a run-length description stands for
RECURSIVE SegTotal(_)
SegTotal(segs) ==
    IF segs = <<>> THEN 0 ELSE segs[1].count + SegTotal(Tail(segs))

\* number of passing rows among the first n rows of a run-length description
RECURSIVE PassingAmongFirst(_, _)
PassingAmongFirst(segs, n) ==
    IF segs = <<>> \/ n <= 0 THEN 0
    ELSE LET take == IF segs[1].count < n THEN segs[1].count ELSE n
         IN  (IF Passes(segs[1].row) THEN take ELSE 0)
                 + PassingAmongFirst(Tail(segs), n - take)

\* the normal forms of the passing rows of a run-length description
PassingForms(segs) ==
    {ValidRowOf(segs[k].row) : k \in {j \in 1..Len(segs) : Passes(segs[j].row)}}

\* the latest run parsed its file into 1..MAX_ROWS rows and validated them
RunValidated == file.parse.ok /\ examined > 0

\* C1: every parsed row that passes all validator rules is in the batch sent
\* to the bulk endpoint, however many other rows fail: once validation is
\* over, a request carrying as many rows as the file has passing rows is sent
\* (or on its way), also when 100 row errors were recorded before.
C1_EveryPassingRowSubmitted ==
    (RunValidated /\ pc \in {"token", "fetch", "idle"})
        => LET passing == PassingAmongFirst(file.parse.segs, SegTotal(file.parse.segs))
           IN  /\ passing > 0 => Len(validRows) = passing
               /\ (passing > 0 /\ pc = "fetch") => Len(requests[1]) = passing

\* C2: a run whose parsed row count n exceeds 1000 ends with successCount 0
\* and the single message 'File has n rows. Maximum is 1000 per upload.',
\* without validating a row or issuing a request; exactly 1000 rows are
\* validated, not rejected.
C2_RowCeiling ==
    LET n == SegTotal(file.parse.segs)
    IN  (pc = "idle" /\ file.parse.ok /\ FileExt(file.name) \in SupportedExts)
            => /\ n > 1000 =>
                    /\ results = BulkResult(0, <<Msg("too_many_rows", 0,
                                     ToStr(n) \o <<"/">> \o <<"1","0","0","0">>)>>)
                    /\ examined = 0
                    /\ clientErrors = <<>>
                    /\ validRows = <<>>
                    /\ requests = <<>>
               /\ n = 1000 =>
                    /\ examined > 0
                    /\ \A k \in 1..Len(results.errors) :
                           results.errors[k].kind # "too_many_rows"

C2_Witness ==
    /\ pc = "idle"
    /\ file.parse.ok
    /\ SegTotal(file.parse.segs) > 1000
    /\ Len(rows) > 1000
    /\ Len(results.errors) = 1
    /\ results.errors[1].kind = "too_many_rows"

\* C7: every row in the body of the bulk request passed all validator rules
\* in the same run: the body holds only normal forms of passing rows of the
\* file, and no more rows than the file has passing rows.
C7_OnlyPassingRowsSent ==
    \A k \in 1..Len(requests) :
        /\ Range(requests[k]) \subseteq PassingForms(file.parse.segs)
        /\ Len(requests[k])
              <= PassingAmongFirst(file.parse.segs, SegTotal(file.parse.segs))

C7_Witness ==
    /\ pc = "fetch"
    /\ Len(requests) = 1
    /\ Len(requests[1]) = 900
    /\ Len(clientErrors) = 101

\* C8: each row sent to the bulk endpoint is in canonical form: email
\* lowercased and trimmed, type trimmed, status lowercased and trimmed.
C8_SentRowsCanonical ==
    \A k \in 1..Len(requests) :
        \A b \in Range(requests[k]) :
            /\ b.email = trim(toLowerCase(b.email))
            /\ b.type = trim(b.type)
            /\ b.status = trim(toLowerCase(b.status))

\* the entries of an error list that name a row, as the validator's
\* messages for the run's rows in ascending row order
ClientPartInOrder(errs) ==
    /\ \A i \in 1..Len(errs) :
          \/ errs[i] = MoreMarker /\ i = Len(errs)
          \/ /\ errs[i].row \in 2..(Len(rows) + 1)
             /\ errs[i] = validateRow(rows[errs[i].row - 1], errs[i].row)
             /\ errs[i] # Null
    /\ \A i \in 1..(Len(errs) - 1) :
          errs[i + 1] # MoreMarker => errs[i].row < errs[i + 1].row

ServerErrorsOf(settled) ==
    IF settled.kind = "value" /\ settled.body.hasErrors
    THEN settled.body.errors ELSE <<>>

ErrorsClientThenServer ==
    LET server == ServerErrorsOf(response)
        split == Len(results.errors) - Len(server)
    IN  /\ split >= 0
        /\ SubSeq(results.errors, split + 1, Len(results.errors)) = server
        /\ ClientPartInOrder(SubSeq(results.errors, 1, split))
        /\ split = Len(clientErrors)

\* C9 (as stated): the errors list of a run that reached submission is the
\* client-side validation errors in ascending row order followed by the
\* server-reported errors in the order returned.
C9_Original ==
    (pc = "idle" /\ requests # <<>>) => ErrorsClientThenServer

\* C9 (amended): the same for a run whose bulk request returned a result.
C9_ErrorsClientThenServer ==
    (pc = "idle" /\ requests # <<>> /\ response.kind = "value")
        => ErrorsClientThenServer

C9_Witness ==
    /\ pc = "idle"
    /\ requests # <<>>
    /\ response.kind = "value"
    /\ Len(ServerErrorsOf(response)) = 2
    /\ Len(clientErrors) > 0
    /\ Len(results.errors) = Len(clientErrors) + 2

\* C10: a run issues at most one request to the bulk endpoint, whose body
\* carries all rows the run validated as passing; it issues none when no row
\* passes, and then ends with the client errors only and successCount 0.
C10_OneRequestAllRows ==
    /\ Len(requests) <= 1
    /\ \A k \in 1..Len(requests) :
          /\ Len(requests[k]) = PassingAmongFirst(file.parse.segs, examined)
          /\ Range(requests[k]) = PassingForms(file.parse.segs)
    /\ (RunValidated /\ PassingAmongFirst(file.parse.segs, SegTotal(file.parse.segs)) = 0)
          => /\ requests = <<>>
             /\ pc = "idle"
             /\ response.kind = "none"
             /\ results = BulkResult(0, clientErrors)
             /\ clientErrors # <<>>

C10_Witness ==
    /\ pc = "idle"
    /\ Len(requests) = 1
    /\ Len(requests[1]) = 1000
    /\ response.kind = "value"

C10_WitnessNone ==
    /\ RunValidated
    /\ pc = "idle"
    /\ requests = <<>>
    /\ Len(clientErrors) = 1

(***************************************************************************)
(* Properties of the session gate                                          *)
(***************************************************************************)
\* C3: protected children are rendered only if a user is present and a
\* lookup for that same user id has returned isAdmin = true (the cache is
\* filled by such lookups only), also after the user identity changed while
\* the gate stayed mounted.
C3_ChildrenOnlyForAuthorizedUser ==
    rendered = "children" => (user # NoUser /\ user \in positive)

\* C4: every entry of the cache has verified = true and belongs to a user id
\* for which a lookup returned a positive admin flag; an entry is written
\* only by the step in which a lookup for that id returns positive (never
\* with the denial alert, never without a lookup completing).
C4_CacheOnlyFromPositiveLookup ==
    /\ [](\A u \in Uids :
             adminCache[u] # NoEntry
                 => /\ adminCache[u].verified = TRUE
                    /\ adminCache[u].timestamp \in 0..now
                    /\ u \in positive)
    /\ [][\A u \in Uids :
             (adminCache'[u] # adminCache[u] /\ adminCache'[u] # NoEntry)
                 => /\ \E l \in lookups : l.uid = u /\ lookups' = lookups \ {l}
                    /\ alerts' = alerts
                    /\ adminCache'[u] = [verified |-> TRUE, timestamp |-> now]]_vars

C4_Witness ==
    /\ adminCache["a"] = [verified |-> TRUE, timestamp |-> 30000]
    /\ adminCache["b"] = NoEntry
    /\ alerts > 0

\* C5: a gate mounting for user U with auth loaded is granted with no lookup
\* if the cache holds a verified entry for U younger than 60 s; otherwise it
\* issues one lookup for U and is not granted by the mount; a mounted gate
\* becomes granted only as a lookup completes or on a fresh cache entry.
C5_FreshCacheGrantsElseLookup ==
    [][/\ (~mounted /\ mounted' /\ ~authLoading /\ user # NoUser)
            => IF /\ adminCache[user] # NoEntry
                  /\ adminCache[user].verified
                  /\ now - adminCache[user].timestamp < 60000
               THEN /\ rendered' = "children"
                    /\ issued' = issued
                    /\ lookups' = lookups
               ELSE /\ rendered' # "children"
                    /\ issued' = issued + 1
                    /\ \E l \in lookups' \ lookups : l.uid = user /\ l.inst = inst'
       /\ (mounted /\ mounted' /\ rendered # "children" /\ rendered' = "children")
            => \/ \E l \in lookups : l.inst = inst /\ lookups' = lookups \ {l}
               \/ /\ user' # NoUser
                  /\ adminCache[user'] # NoEntry
                  /\ now - adminCache[user'].timestamp < 60000]_vars

\* a second mount for the same user 60 s after the lookup that filled the cache
C5_Witness ==
    /\ mounted
    /\ inst = 2
    /\ user # NoUser
    /\ adminCache[user] = [verified |-> TRUE, timestamp |-> 0]
    /\ now = 60000
    /\ issued = 2
    /\ rendered = "blank"

\* a second mount for the same user within 60 s of the lookup
C5_WitnessFresh ==
    /\ mounted
    /\ inst = 2
    /\ user # NoUser
    /\ adminCache[user] = [verified |-> TRUE, timestamp |-> 0]
    /\ now = 59999
    /\ issued = 1
    /\ lookups = {}
    /\ rendered = "children"

(***************************************************************************)
(* Properties of validateRow                                               *)
(***************************************************************************)
\* the rules of the validator, each stated on its own
Rule1_EmailShape(row) ==
    \E at \in 2..(Len(row.email) - 3) :
        /\ row.email[at] = "@"
        /\ \A i \in 1..Len(row.email) :
              /\ row.email[i] \notin {" ", "\t", "\n", "\r"}
              /\ row.email[i] = "@" => i = at
        /\ \E dot \in (at + 2)..(Len(row.email) - 1) : row.email[dot] = "."
Rule2_DateFormat(row) ==
    /\ Len(row.date) = 10
    /\ \A i \in 1..10 :
          IF i \in {3, 6} THEN row.date[i] = "/"
          ELSE row.date[i] \in {"0","1","2","3","4","5","6","7","8","9"}
DayField(row) == ToNum(<<row.date[1], row.date[2]>>)
MonthField(row) == ToNum(<<row.date[4], row.date[5]>>)
YearField(row) == ToNum(<<row.date[7], row.date[8], row.date[9], row.date[10]>>)
DaysInMonth(m, y) ==
    IF m \in {4, 6, 9, 11} THEN 30
    ELSE IF m # 2 THEN 31
    ELSE IF y % 400 = 0 \/ (y % 4 = 0 /\ y % 100 # 0) THEN 29
    ELSE 28
Rule3_RealCalendarDate(row) ==
    /\ MonthField(row) \in 1..12
    /\ DayField(row) \in 1..DaysInMonth(MonthField(row), YearField(row))
Rule4_YearInRange(row) == YearField(row) \in 2000..2100
Rule5_AmountInRange(row) == ~row.amount.nan /\ row.amount.v \in 0..100000
Rule6_Type(row) == Len(trim(row.type)) \in 1..50
Rule7_Status(row) ==
    trim(toLowerCase(row.status))
        \in {<<"p","a","i","d">>, <<"p","e","n","d","i","n","g">>,
             <<"f","a","i","l","e","d">>}

\* the message kind of the first rule the row fails, "null" if it fails none
FirstFailingRule(row) ==
    IF ~Rule1_EmailShape(row) THEN "email"
    ELSE IF ~Rule2_DateFormat(row) THEN "date_format"
    ELSE IF ~Rule3_RealCalendarDate(row) THEN "calendar"
    ELSE IF ~Rule4_YearInRange(row) THEN "year"
    ELSE IF ~Rule5_AmountInRange(row) THEN "amount"
    ELSE IF ~Rule6_Type(row) THEN "type"
    ELSE IF ~Rule7_Status(row) THEN "status"
    ELSE "null"

\* C6: validateRow returns exactly the error of the first failing rule in
\* the order email shape, date format, real calendar date, year in
\* [2000, 2100], amount, type, status, naming the row, and null iff no rule
\* fails.
C6_FirstFailingRuleWins ==
    vOut # Pending
        => /\ vOut.kind = FirstFailingRule(vRow)
           /\ vOut.row = IF FirstFailingRule(vRow) = "null" THEN 0 ELSE vNum

(***************************************************************************)
(* Properties of the import run: failures, phases, termination             *)
(***************************************************************************)
\* the messages makeRequest rejects with once fetch was called
TransportMessages ==
    {"network", "detail", "field_errors", "api_error", "server_error"}

\* C11: a run whose bulk request failed (network error or non-2xx reply)
\* ends with successCount 0 and exactly one error, the failure's message,
\* and with exactly one request made: no retry.
C11_TransportFailureSingleError ==
    (pc = "idle" /\ requests # <<>> /\ response.kind = "throw")
        => /\ response.message.kind \in TransportMessages
           /\ results.success = 0
           /\ Len(results.errors) = 1
           /\ results.errors[1] = response.message
           /\ Len(requests) = 1
           /\ ~isProcessing

C11_Witness ==
    /\ pc = "idle"
    /\ Len(requests) = 1
    /\ response.kind = "throw"
    /\ response.message.kind = "server_error"
    /\ Len(clientErrors) > 0
    /\ results.errors = <<response.message>>

\* the phase sequences a run can show, complete or not
PhasePaths ==
    { <<>>, <<"Parsing">>, <<"Parsing", "Done">>,
      <<"Parsing", "Validating", "Done">>,
      <<"Parsing", "Validating", "Submitting">>,
      <<"Parsing", "Validating", "Submitting", "Done">> }

FileLevelKinds ==
    {"unsupported", "empty", "too_many_rows", "parse_error", "no_sheets",
     "read_failed"}

\* C12: the phases of a run advance along Parsing, Validating, Submitting,
\* Done only, each entered at most once; a run leaves Parsing for Done only
\* on a file-level error and Validating for Done only with zero valid rows;
\* Submitting is entered only with at least one valid row.
C12_PhaseOrder ==
    /\ trail \in PhasePaths
    /\ trail = <<"Parsing", "Done">>
          => /\ Len(results.errors) = 1
             /\ results.errors[1].kind \in FileLevelKinds
             /\ examined = 0
    /\ trail = <<"Parsing", "Validating", "Done">>
          => (validRows = <<>> /\ examined > 0 /\ requests = <<>>)
    /\ (Len(trail) >= 3 /\ trail[3] = "Submitting") => Len(validRows) >= 1
    /\ (pc = "parsing") = (trail = <<"Parsing">>)
    /\ (pc \in {"token", "fetch"}) = (trail = <<"Parsing", "Validating", "Submitting">>)
    /\ requests # <<>> => (Len(trail) >= 3 /\ trail[3] = "Submitting")

C12_Witness ==
    /\ trail = <<"Parsing", "Validating", "Done">>
    /\ Len(clientErrors) = 101
    /\ pc = "idle"

\* C14: a file-level error (unsupported extension, file the parser rejects,
\* no data row, more than 1000 rows) ends the run with successCount 0 and
\* exactly one error of that kind, with no row validated and no request; an
\* unsupported extension is rejected without the parser being started.
C14_FileLevelErrors ==
    /\ [](LET n == SegTotal(file.parse.segs)
              expected ==
                  IF FileExt(file.name) \notin SupportedExts THEN {"unsupported"}
                  ELSE IF ~file.parse.ok THEN {file.parse.err.kind}
                  ELSE IF n = 0 THEN {"empty"}
                  ELSE IF n > 1000 THEN {"too_many_rows"}
                  ELSE {}
          IN  (pc = "idle" /\ file # NoFile /\ expected # {})
                  => /\ results.success = 0
                     /\ Len(results.errors) = 1
                     /\ results.errors[1].kind \in expected
                     /\ results.errors[1].kind \in FileLevelKinds
                     /\ examined = 0
                     /\ clientErrors = <<>>
                     /\ validRows = <<>>
                     /\ requests = <<>>
                     /\ ~isProcessing)
    /\ [][(file' # file /\ FileExt(file'.name) \notin SupportedExts)
              => /\ pc' = "idle"
                 /\ isProcessing' = FALSE
                 /\ rows' = <<>>
                 /\ results'.errors = <<Msg("unsupported", 0, <<>>)>>]_vars

C14_Witness ==
    /\ pc = "idle"
    /\ FileExt(file.name) \in SupportedExts
    /\ ~file.parse.ok
    /\ file.parse.err.kind = "no_sheets"
    /\ results = BulkResult(0, <<file.parse.err>>)

\* C13: a run that has started eventually is Done, with a result and the
\* processing flag cleared, whatever path it takes; and whenever no run is
\* suspended after one started, there is a result.
C13_RunReachesDone ==
    /\ [](( pc = "idle" /\ trail # <<>>)
              => (results # NoResult /\ ~isProcessing /\ trail[Len(trail)] = "Done"))
    /\ (pc # "idle" \/ isProcessing)
          ~> (pc = "idle" /\ ~isProcessing /\ results # NoResult
                /\ trail # <<>> /\ trail[Len(trail)] = "Done")

C13_Witness ==
    /\ pc = "idle"
    /\ ~isProcessing
    /\ response.kind = "undefined"
    /\ results = BulkResult(0, <<Msg("type_error", 0, <<>>)>>)
    /\ trail = <<"Parsing", "Validating", "Submitting", "Done">>

(***************************************************************************)
(* Properties of the identity resolver                                     *)
(***************************************************************************)
\* the normalized emails of the rows resolved so far, this one included
IdKeysUpTo(n) ==
    {trim(toLowerCase(idRows[j])) : j \in 1..(IF n < Len(idRows) THEN n ELSE Len(idRows))}

\* C15: within one run exactly one external lookup is issued for every
\* distinct normalized email the rows refer to, however many rows share it;
\* a cached outcome (user id or not-found) stays for the rest of the run and
\* is never looked up again.
C15_OneLookupPerEmail ==
    /\ [](\A k \in IdKeys :
             /\ idLookups[k] <= 1
             /\ idLookups[k] = 1 <=> k \in IdKeysUpTo(idNext - (IF idPending = <<>> THEN 1 ELSE 0))
             /\ identityCache[k] # Unresolved => idLookups[k] = 1)
    /\ [][\A k \in IdKeys :
             (identityCache[k] # Unresolved /\ idRows' = idRows /\ idNext' >= idNext)
                 => /\ identityCache'[k] = identityCache[k]
                    /\ idLookups'[k] = idLookups[k]]_vars

\* four rows with one email in three spellings, not found, one lookup
C15_Witness ==
    /\ Len(idRows) = 4
    /\ idNext = 5
    /\ \A j \in 1..4 : trim(toLowerCase(idRows[j])) = toLowerCase(JohnMixed)
    /\ idRows[1] # idRows[2]
    /\ identityCache[toLowerCase(JohnMixed)] = "not_found"
    /\ idLookups[toLowerCase(JohnMixed)] = 1

(***************************************************************************)
(* Properties of the session gate: denial, duplicate lookups, logout       *)
(***************************************************************************)
\* C16: once the lookup of a mounted gate has completed without a positive
\* flag or has failed, the gate is no longer pending: while it shows the
\* pending screen for a signed-in user a lookup of its own is still in
\* flight, and when it shows nothing the denial notice was raised and the
\* redirect to login issued.
C16_DeniedOnFailure ==
    (mounted /\ ~authLoading /\ user # NoUser)
        => /\ rendered = "blank" => \E l \in lookups : l.inst = inst
           /\ rendered = "null" => (redirect /\ alerts > 0)

\* C17: a mounted gate instance never has two lookups in flight for the same
\* user, however often its effect re-runs.
C17_NoDuplicateLookup ==
    \A l1, l2 \in lookups :
        (l1.inst = l2.inst /\ l1.uid = l2.uid) => l1 = l2

\* C18: when a logout completes the cache holds no entry, also if a lookup
\* was in flight when the logout handler cleared the cache.
C18_CacheEmptyAfterLogout ==
    [][(loggingOut /\ ~loggingOut') => adminCache' = EmptyCache]_vars

(***************************************************************************)
(* Properties of the payouts screen                                        *)
(***************************************************************************)
\* C19: the refresh timer is active only while the screen is mounted,
\* auto-refresh is on and none of the screen's approve/reject/complete
\* actions is in flight: no timer while such an action is in flight (two
\* overlapping actions included) and no timer after unmount.
C19_TimerPausedWhileActioning ==
    timer => /\ pMounted
             /\ autoRefresh
             /\ ~\E a \in pActions : a.inst = pInst

(***************************************************************************)
(* Properties of the dashboard data cache                                  *)
(***************************************************************************)
\* C20: a cache entry is replaced as a whole: while the timestamp of the
\* dashboard cache marks it fresh, its stats and its users come from the
\* same write.
C20_WholeEntryWrites ==
    (dataCache.timestamp > 0 /\ dNow - dataCache.timestamp < 60000)
        => dataCache.stats = dataCache.users

(***************************************************************************)
(* Properties of validateRow: the amount and calendar rules                *)
(***************************************************************************)
\* C22: when the rules before it pass, the amount rule rejects the row with
\* the amount error iff the amount is NaN or lies outside [0, 100000];
\* 0 and 100000 are accepted, -1, 100001 and NaN are rejected.
C22_AmountInclusiveBounds ==
    (/\ vOut # Pending
     /\ Rule1_EmailShape(vRow) /\ Rule2_DateFormat(vRow)
     /\ Rule3_RealCalendarDate(vRow) /\ Rule4_YearInRange(vRow))
        => /\ (vOut.kind = "amount")
                <=> (vRow.amount.nan \/ vRow.amount.v < 0 \/ vRow.amount.v > 100000)
           /\ vRow.amount \in {Num(0), Num(100000)} => vOut.kind # "amount"
           /\ vRow.amount \in {Num(-1), Num(100001), NaN} => vOut.kind = "amount"

\* the upper bound itself reaches the amount rule and is accepted
C22_Witness ==
    /\ vOut # Pending
    /\ vRow.email = JohnMixed
    /\ vRow.date = Date15Jan2025
    /\ vRow.amount = Num(100000)
    /\ vOut.kind \in {"type", "status", "null"}

\* C23: a date of the form DD/MM/YYYY that denotes no calendar date is
\* rejected with the calendar-date error; every real calendar date whose
\* year lies in [2000, 2100] passes the three date rules.
C23_CalendarDates ==
    (vOut # Pending /\ Rule1_EmailShape(vRow) /\ Rule2_DateFormat(vRow))
        => /\ ~Rule3_RealCalendarDate(vRow)
                => vOut.kind = "calendar" /\ vOut.row = vNum /\ vOut.arg = vRow.date
           /\ (Rule3_RealCalendarDate(vRow) /\ Rule4_YearInRange(vRow))
                => vOut.kind \notin {"date_format", "calendar", "year"}

\* 15/13/2025 was validated and got the calendar-date error
C23_Witness ==
    /\ vOut.kind = "calendar"
    /\ vRow.date = DateOf(<<"1","5">>, <<"1","3">>, <<"2","0","2","5">>)

(***************************************************************************)
(* Properties of makeRequest                                               *)
(***************************************************************************)
\* C21: for a non-2xx reply makeRequest throws one Error whose message is
\* the detail of the reply's body when it has one (the string, or the field
\* errors joined), and otherwise the status-coded "Server error (<status>)".
C21_NonOkDetailElseStatus ==
    (/\ pc = "idle"
     /\ requests # <<>>
     /\ response.kind = "throw"
     /\ response.message.kind # "network")
        => \/ response.message.kind \in {"detail", "field_errors"}
           \/ /\ response.message.kind = "server_error"
              /\ response.message.arg = ToStr(500)

(***************************************************************************)
(* Properties of the gate: denial                                          *)
(***************************************************************************)
\* C24: once the gate has denied a user, the same instance starts no further
\* lookup and raises no further notice for that user until a new mount or
\* an identity change.
C24_DenialNotRetried ==
    [][/\ \A l \in lookups' \ lookups :
              [inst |-> l.inst, uid |-> l.uid] \notin denied'
       /\ alerts' # alerts
              => \A l \in lookups \ lookups' :
                     [inst |-> l.inst, uid |-> l.uid] \notin denied]_vars

(***************************************************************************)
(* Properties of row normalization                                         *)
(***************************************************************************)
\* the columns a raw record lacks
MissingColumns(raw) ==
    {c \in {"email", "date", "amount", "type", "status"} : raw[c] = Undefined}

\* C25: a record lacking a column is still normalized (a missing email,
\* date, type or status to the empty string, a missing amount to 0), and
\* the validator then reports a row-level error for that row.
C25_AbsenceReportedByValidator ==
    (vRaw # NoRaw /\ vRow # NoRow)
        => /\ \A c \in MissingColumns(vRaw) :
                 vRow[c] = IF c = "amount" THEN Num(0) ELSE <<>>
           /\ (vOut # Pending /\ MissingColumns(vRaw) # {})
                 => vOut # Null /\ vOut.row = vNum

(***************************************************************************)
(* Properties of the client error list                                     *)
(***************************************************************************)
\* number of rows of a run-length description that fail validation
FailingRows(segs) ==
    SegTotal(segs) - PassingAmongFirst(segs, SegTotal(segs))

\* C26: the client error list never holds more than 100 row messages, and
\* at most one truncation marker after them: its length is at most 101.
C26_ErrorListCapped ==
    /\ Len(clientErrors) <= 101
    /\ \A k \in 1..Len(clientErrors) :
          IF clientErrors[k] = MoreMarker
          THEN k = Len(clientErrors) /\ k = 101
          ELSE k <= 100 /\ clientErrors[k].row >= 2

\* a file with 900 failing rows was validated
C26_Witness ==
    /\ RunValidated
    /\ FailingRows(file.parse.segs) >= 900
    /\ Len(clientErrors) = 101
    /\ clientErrors[101] = MoreMarker

\* C30: the truncation marker is in the client error list iff more than 100
\* rows of the file fail validation; exactly 100 failing rows give 100 row
\* messages and no marker.
C30_MarkerIffMoreThan100 ==
    RunValidated
        => LET failing == FailingRows(file.parse.segs)
               marked  == clientErrors # <<>>
                              /\ clientErrors[Len(clientErrors)] = MoreMarker
           IN  /\ marked <=> failing > 100
               /\ failing = 100 => Len(clientErrors) = 100

(***************************************************************************)
(* Properties of the import run: one run at a time                         *)
(***************************************************************************)
\* C27: at most one import run is in progress: while a run is between
\* Parsing and Done the file input is disabled (isProcessing), so no second
\* run starts: the run's file stays and its phase history only grows.
C27_OneRunAtATime ==
    /\ [](pc # "idle" => isProcessing)
    /\ [][pc # "idle"
            => /\ file' = file
               /\ Len(trail') >= Len(trail)
               /\ SubSeq(trail', 1, Len(trail)) = trail]_vars

\* a run awaits the reply of the bulk request with the input disabled
C27_Witness ==
    /\ pc = "fetch"
    /\ isProcessing
    /\ Len(requests) = 1

(***************************************************************************)
(* Properties of the payouts screen: refetch after an action               *)
(***************************************************************************)
\* C28: once an action and its follow-up refetch have completed, the lists
\* shown are never replaced by the response of a poll or a manual refresh
\* that was started before the action succeeded.
C28_NoStaleOverwrite ==
    (pMounted /\ shownSrc \in {"poll", "manual"}) => shown >= settledVer

(***************************************************************************)
(* Properties of the user detail screen                                    *)
(***************************************************************************)
\* C29: the current transaction page always satisfies
\* 1 <= txPage <= max(1, ceil(transactionCount / 10)), also when the page
\* is changed while a delete request is in flight.
C29_TxPageInRange ==
    /\ 1 <= txPage
    /\ txPage <= (IF Cardinality(transactions) <= 10 THEN 1
                  ELSE (Cardinality(transactions) + 9) \div 10)

====
